---------------------------- MODULE Spec2Model ----------------------------
(***************************************************************************)
(* PocketPilot publishing utilities.                                       *)
(*                                                                         *)
(*   verify_publishing_files.py : main(), check_file_exists()              *)
(*   generate_feature_graphic.py: create_feature_graphic()                 *)
(*                                                                         *)
(* The two scripts are separate processes started by an operator, one at a *)
(* time, over one working directory.  The state is the working directory   *)
(* (which paths exist, and as what), the running process with its position *)
(* and locals, and what it has written to standard output.                 *)
(*                                                                         *)
(* The status emojis of the source are not representable in a TLA+ string: *)
(* PRESENT stands for U+2705 and MISSING for U+274C.                       *)
(***************************************************************************)
EXTENDS Naturals, Integers, Sequences, FiniteSets, TLC

VARIABLES
    fs,                 \* working directory: node -> "absent" | "file" | "dir"
    content,            \* what the file at output_path holds: [width, height]
    prog,               \* "none" | "verifier" | "generator"
    pc,                 \* position of the running process
    out,                \* standard output of the current (or last) process
    exit_code,          \* exit status of the current (or last) process
    exc,                \* the exception in flight, or "none"
    idx,                \* verifier: 1-based position of the for loop
    all_files_present,  \* verifier: the local of that name
    img,                \* generator: the canvas, [width, height]
    font_large, font_medium, font_small,   \* generator: the three fonts
    loads,              \* generator: truetype calls that have succeeded
    startFs,            \* fs as it was when the current process started
    hasLast,            \* a verifier run has completed before
    lastFs,             \* startFs of the last completed verifier run
    lastOut             \* out of the last completed verifier run

vars == <<fs, content, prog, pc, out, exit_code, exc, idx, all_files_present,
          img, font_large, font_medium, font_small, loads,
          startFs, hasLast, lastFs, lastOut>>

verifierLocals == <<idx, all_files_present>>
generatorLocals == <<img, font_large, font_medium, font_small, loads>>
history == <<hasLast, lastFs, lastOut>>

---------------------------------------------------------------------------
(* Bounds *)

\* How many nodes of the working directory may differ, at the start, from
\* the complete tree (every required path a file, every parent a directory).
\* A node below a parent that is not a directory is absent and not counted.
MaxDeviations == 1

---------------------------------------------------------------------------
(* verify_publishing_files.py: configuration *)

PRESENT == "[OK]"
MISSING == "[X]"

required_files == <<
    <<"Privacy Policy", "PRIVACY_POLICY.md">>,
    <<"Terms of Service", "TERMS_OF_SERVICE.md">>,
    <<"Data Safety Disclosure", "DATA_SAFETY_DISCLOSURE.md">>,
    <<"Store Listing", "STORE_LISTING.md">>,
    <<"Release Notes", "RELEASE_NOTES.md">>,
    <<"Content Rating Questionnaire", "CONTENT_RATING_QUESTIONNAIRE.md">>,
    <<"Promotional Assets Guide", "PROMOTIONAL_ASSETS_GUIDE.md">>,
    <<"Google Play Publishing Checklist", "GOOGLE_PLAY_PUBLISHING_CHECKLIST.md">>,
    <<"Support Documentation", "SUPPORT_DOCUMENTATION.md">>,
    <<"Build Script", "build_release.bat">>,
    <<"Signing Guide", "SIGNING_GUIDE.md">>,
    <<"App Icon", "assets/logo.png">>,
    <<"Keystore File", "pocketpilot-key.jks">>,
    <<"Feature Graphic", "promotional-assets/feature-graphic.png">>,
    <<"Promotional Assets README", "promotional-assets/README.md">>,
    <<"Screenshots README", "promotional-assets/screenshots/README.md">>,
    <<"Video README", "promotional-assets/video/README.md">>,
    <<"Feature Graphic Generator", "generate_feature_graphic.py">>,
    <<"Screenshot Helper", "take_screenshots.py">>,
    <<"Screenshot Helper Batch", "take_screenshots.bat">>,
    <<"Complete File List", "GOOGLE_PLAY_PUBLISHING_FILE_LIST.md">>,
    <<"Final Checklist", "FINAL_PUBLISHING_CHECKLIST.md">>,
    <<"Publishing Summary", "GOOGLE_PLAY_PUBLISHING_SUMMARY.md">>,
    <<"Promotional Assets Checklist", "PROMOTIONAL_ASSETS_CHECKLIST.md">>
>>

NumRequired == Len(required_files)
NameOf(i) == required_files[i][1]
PathOf(i) == required_files[i][2]
RequiredPaths == {PathOf(i) : i \in 1..NumRequired}

---------------------------------------------------------------------------
(* generate_feature_graphic.py: configuration *)

width == 1024
height == 500
output_path == "promotional-assets/feature-graphic.png"

\* os.path.dirname(output_path)
output_dir == "promotional-assets"

---------------------------------------------------------------------------
(* The working directory *)

Dirs == {"assets", "promotional-assets",
         "promotional-assets/screenshots", "promotional-assets/video"}
Nodes == RequiredPaths \cup Dirs
Kinds == {"absent", "file", "dir"}

\* The directory a node lies in; "." is the working directory itself.
Parent(n) ==
    CASE n = "assets/logo.png" -> "assets"
      [] n \in {"promotional-assets/feature-graphic.png",
                "promotional-assets/README.md",
                "promotional-assets/screenshots",
                "promotional-assets/video"} -> "promotional-assets"
      [] n = "promotional-assets/screenshots/README.md"
                                        -> "promotional-assets/screenshots"
      [] n = "promotional-assets/video/README.md"
                                        -> "promotional-assets/video"
      [] OTHER -> "."

RECURSIVE Reachable(_, _)
\* Every directory on the way to n is a directory of f.
Reachable(f, n) ==
    LET p == Parent(n)
    IN  p = "." \/ (f[p] = "dir" /\ Reachable(f, p))

\* A tree: nothing exists below what is not a directory.
WellFormed(f) == \A n \in Nodes : f[n] # "absent" => Reachable(f, n)

Complete == [n \in Nodes |-> IF n \in Dirs THEN "dir" ELSE "file"]

Flip(k) == IF k = "dir" THEN "file" ELSE "dir"

RECURSIVE SetsUpTo(_)
\* The sets of at most k nodes.
SetsUpTo(k) ==
    IF k = 0 THEN {{}}
    ELSE LET P == SetsUpTo(k - 1)
         IN  P \cup {s \cup {n} : s \in P, n \in Nodes}

\* Complete with the nodes of a removed and those of S \ a of the other kind,
\* and everything below a non-directory gone.
Deviate(S, a) ==
    LET raw == [n \in Nodes |-> IF n \in a THEN "absent"
                                ELSE IF n \in S THEN Flip(Complete[n])
                                ELSE Complete[n]]
    IN  [n \in Nodes |-> IF Reachable(raw, n) THEN raw[n] ELSE "absent"]

InitialTrees ==
    UNION {{Deviate(S, a) : a \in SUBSET S} : S \in SetsUpTo(MaxDeviations)}

\* os.path.exists: true of a file and of a directory alike.
exists(f, filepath) == f[filepath] # "absent"

NoContent == [width |-> 0, height |-> 0]
\* A font name not yet bound.
Unset == [face |-> "unset", size |-> 0]
\* An output file left by an earlier run of the generator.
Graphic == [width |-> width, height |-> height]

---------------------------------------------------------------------------
(* Standard output *)

RECURSIVE Repeat(_, _)
\* Python's  s * n  on a string.
Repeat(s, n) == IF n = 0 THEN "" ELSE s \o Repeat(s, n - 1)

\* print(line)
print(o, line) == Append(o, line)

\* A process starts with nothing written.
NewStdoutKept == lastOut
NewStdout == << >>

---------------------------------------------------------------------------
(* verify_publishing_files.py *)

check_file_exists_isfile(f, filepath) ==
    IF f[filepath] = "file" THEN PRESENT ELSE MISSING
check_file_exists(f, filepath) ==
    IF exists(f, filepath) THEN PRESENT ELSE MISSING

\* f"{status} {name}: {filepath}"
StatusLine(status, name, filepath) ==
    status \o " " \o name \o ": " \o filepath

\* if status == MISSING: all_files_present = False
UpdateFlagOverwrite(flag, status) == status # MISSING
UpdateFlag(flag, status) == IF status = MISSING THEN FALSE ELSE flag

\* for name, filepath in required_files: the position after entry i.
NextIndexSkip(i) == i + 2
NextIndex(i) == i + 1

\* main() returns without calling sys.exit: the interpreter exits 0,
\* whatever the aggregate.
VerifierExitCodeFailing(flag) == IF flag THEN 0 ELSE 1
VerifierExitCode(flag) == 0

HeaderLines ==
    << Repeat("=", 60),
       "GOOGLE PLAY PUBLISHING FILES VERIFICATION",
       Repeat("=", 60),
       "",
       "Checking required files:",
       Repeat("-", 40) >>

ALL_PRESENT == "[OK] ALL REQUIRED FILES ARE PRESENT"
SOME_MISSING == "[X] SOME FILES ARE MISSING"

AggregateLinesSwapped(flag) ==
    IF flag THEN << "", Repeat("-", 40), SOME_MISSING >>
    ELSE << "", Repeat("-", 40), ALL_PRESENT >>
AggregateLines(flag) ==
    << "", Repeat("-", 40) >> \o
    IF flag
    THEN << ALL_PRESENT,
            "",
            "Next steps:",
            "1. Create screenshots of your app",
            "2. (Optional) Create a promo video",
            "3. Build your release version with build_release.bat",
            "4. Upload all assets to Google Play Console",
            "5. Submit your app for review" >>
    ELSE << SOME_MISSING,
            "Please check the list above and ensure all required files are present." >>

FOOTER == "For detailed instructions, see GOOGLE_PLAY_PUBLISHING_FILE_LIST.md"
FooterLines == << "", FOOTER >>

\* No script is running.
NoProcess ==
    /\ prog = "none"
    /\ pc = "exited"
    /\ out = << >>
    /\ exit_code = 0
    /\ exc = "none"
    /\ idx = 1
    /\ all_files_present = TRUE
    /\ img = NoContent
    /\ font_large = Unset /\ font_medium = Unset /\ font_small = Unset
    /\ loads = 0
    /\ startFs = fs

\* A process ends: no script is running, and fs is left as it is.
ProcessGone ==
    /\ prog' = "none"
    /\ pc' = "exited"
    /\ out' = << >>
    /\ exit_code' = 0
    /\ exc' = "none"
    /\ idx' = 1
    /\ all_files_present' = TRUE
    /\ img' = NoContent
    /\ font_large' = Unset /\ font_medium' = Unset /\ font_small' = Unset
    /\ loads' = 0
    /\ startFs' = fs

\* The operator runs the script.
StartVerifier ==
    /\ prog = "none"
    /\ prog' = "verifier"
    /\ pc' = "main"
    /\ out' = NewStdout
    /\ exit_code' = 0
    /\ exc' = "none"
    /\ startFs' = fs
    /\ UNCHANGED <<fs, content, verifierLocals, generatorLocals, history>>

\* main(), lines 17-53: the banner, all_files_present = True, the list header.
VerifierHeader ==
    /\ prog = "verifier" /\ pc = "main"
    /\ out' = out \o HeaderLines
    /\ all_files_present' = TRUE
    /\ idx' = 1
    /\ pc' = "loop"
    /\ UNCHANGED <<fs, content, prog, exit_code, exc, generatorLocals, startFs, history>>

\* main(), lines 55-59: one iteration of the for loop.
CheckEntry ==
    /\ prog = "verifier" /\ pc = "loop"
    /\ idx <= NumRequired
    /\ LET status == check_file_exists(fs, PathOf(idx))
       IN  /\ out' = print(out, StatusLine(status, NameOf(idx), PathOf(idx)))
           /\ all_files_present' = UpdateFlag(all_files_present, status)
    /\ idx' = NextIndex(idx)
    /\ UNCHANGED <<fs, content, prog, pc, exit_code, exc, generatorLocals, startFs, history>>

\* main(), lines 61-74: the loop is over; the aggregate message.
Aggregate ==
    /\ prog = "verifier" /\ pc = "loop"
    /\ idx > NumRequired
    /\ out' = out \o AggregateLines(all_files_present)
    /\ pc' = "footer"
    /\ UNCHANGED <<fs, content, prog, exit_code, exc, verifierLocals,
                   generatorLocals, startFs, history>>

\* main(), lines 76-77, and the return to the interpreter, which exits 0.
Footer ==
    /\ prog = "verifier" /\ pc = "footer"
    /\ out' = out \o FooterLines
    /\ exit_code' = VerifierExitCode(all_files_present)
    /\ pc' = "exited"
    /\ UNCHANGED <<fs, content, prog, exc, verifierLocals,
                   generatorLocals, startFs, history>>

\* The process is gone, and its locals with it; the operator has its output.
VerifierExit ==
    /\ prog = "verifier" /\ pc = "exited"
    /\ hasLast' = TRUE
    /\ lastFs' = startFs
    /\ lastOut' = out
    /\ UNCHANGED <<fs, content>>
    /\ ProcessGone

VerifierStep == VerifierHeader \/ CheckEntry \/ Aggregate \/ Footer \/ VerifierExit

---------------------------------------------------------------------------
(* generate_feature_graphic.py *)

\* ImageFont.truetype(face, size), when it succeeds.
truetype(face, size) == [face |-> face, size |-> size]

\* ImageFont.load_default()
load_default == [face |-> "default", size |-> 0]

\* The except clause, lines 25-29: all three names are rebound.
FallbackFontsPartial(fl, fm, fsm) ==
    << IF fl = Unset THEN load_default ELSE fl,
       IF fm = Unset THEN load_default ELSE fm,
       IF fsm = Unset THEN load_default ELSE fsm >>
FallbackFonts(fl, fm, fsm) == << load_default, load_default, load_default >>

\* Where control goes after a statement of the try block, lines 20-24:
\* to the next statement, or to the except clause.
AfterLoad(ok, next) == IF ok THEN next ELSE "except"

\* Image.new('RGB', (width, height), background_color)
NewImageSquare(w, h) == [width |-> w, height |-> w]
NewImage(w, h) == [width |-> w, height |-> h]

\* os.makedirs(d, exist_ok=True): nothing to do for a directory; a missing
\* one is created unless the system refuses; a file in its place is an error.
makedirs(f, d, permitted) ==
    CASE f[d] = "dir" -> [ok |-> TRUE, exc |-> "none", fs |-> f]
      [] f[d] = "file" -> [ok |-> FALSE, exc |-> "FileExistsError", fs |-> f]
      [] OTHER -> IF permitted
                  THEN [ok |-> TRUE, exc |-> "none", fs |-> [f EXCEPT ![d] = "dir"]]
                  ELSE [ok |-> FALSE, exc |-> "PermissionError", fs |-> f]

\* img.save(path): the file is opened for writing, which creates or truncates
\* it, and the encoded image written; a directory in its place, a missing
\* parent, or a refusal of the system is an error and nothing is written.
saveElsewhere(f, c, path, image, permitted) ==
    [ok |-> TRUE, exc |-> "none",
     fs |-> [f EXCEPT !["promotional-assets/README.md"] = "file"], content |-> c]
save(f, c, path, image, permitted) ==
    CASE f[path] = "dir" ->
            [ok |-> FALSE, exc |-> "IsADirectoryError", fs |-> f, content |-> c]
      [] f[Parent(path)] # "dir" ->
            [ok |-> FALSE, exc |-> "FileNotFoundError", fs |-> f, content |-> c]
      [] ~permitted ->
            [ok |-> FALSE, exc |-> "PermissionError", fs |-> f, content |-> c]
      [] OTHER ->
            [ok |-> TRUE, exc |-> "none",
             fs |-> [f EXCEPT ![path] = "file"], content |-> image]

\* Where control goes after a statement outside any try block, lines 76-79:
\* on, or out of the function and the script with the exception.
AfterSwallowed(ok, next) == next
After(ok, next) == IF ok THEN next ELSE "crashed"

CREATED == "Feature graphic created successfully at " \o output_path

ReportLines ==
    << CREATED,
       "Dimensions: 1024x500 pixels",
       "Background color: #009688 (Teal)",
       "Text color: White" >>

\* The operator runs the script.
StartGenerator ==
    /\ prog = "none"
    /\ prog' = "generator"
    /\ pc' = "new"
    /\ out' = NewStdout
    /\ exit_code' = 0
    /\ exc' = "none"
    /\ startFs' = fs
    /\ img' = NoContent
    /\ font_large' = Unset /\ font_medium' = Unset /\ font_small' = Unset
    /\ loads' = 0
    /\ UNCHANGED <<fs, content, verifierLocals, history>>

\* Lines 11-17: the canvas.
CreateImage ==
    /\ prog = "generator" /\ pc = "new"
    /\ img' = NewImage(width, height)
    /\ pc' = "font_large"
    /\ UNCHANGED <<fs, content, prog, out, exit_code, exc, verifierLocals,
                   font_large, font_medium, font_small, loads, startFs, history>>

\* Line 22.
LoadFontLarge ==
    /\ prog = "generator" /\ pc = "font_large"
    /\ \E ok \in BOOLEAN :
          /\ font_large' = IF ok THEN truetype("arial.ttf", 80) ELSE font_large
          /\ loads' = IF ok THEN loads + 1 ELSE loads
          /\ exc' = IF ok THEN exc ELSE "OSError"
          /\ pc' = AfterLoad(ok, "font_medium")
    /\ UNCHANGED <<fs, content, prog, out, exit_code, verifierLocals,
                   img, font_medium, font_small, startFs, history>>

\* Line 23.
LoadFontMedium ==
    /\ prog = "generator" /\ pc = "font_medium"
    /\ \E ok \in BOOLEAN :
          /\ font_medium' = IF ok THEN truetype("arial.ttf", 40) ELSE font_medium
          /\ loads' = IF ok THEN loads + 1 ELSE loads
          /\ exc' = IF ok THEN exc ELSE "OSError"
          /\ pc' = AfterLoad(ok, "font_small")
    /\ UNCHANGED <<fs, content, prog, out, exit_code, verifierLocals,
                   img, font_large, font_small, startFs, history>>

\* Line 24.
LoadFontSmall ==
    /\ prog = "generator" /\ pc = "font_small"
    /\ \E ok \in BOOLEAN :
          /\ font_small' = IF ok THEN truetype("arial.ttf", 30) ELSE font_small
          /\ loads' = IF ok THEN loads + 1 ELSE loads
          /\ exc' = IF ok THEN exc ELSE "OSError"
          /\ pc' = AfterLoad(ok, "draw")
    /\ UNCHANGED <<fs, content, prog, out, exit_code, verifierLocals,
                   img, font_large, font_medium, startFs, history>>

\* Lines 25-29: the bare except; the exception is dropped, nothing printed.
FontFallback ==
    /\ prog = "generator" /\ pc = "except"
    /\ LET f == FallbackFonts(font_large, font_medium, font_small)
       IN  /\ font_large' = f[1]
           /\ font_medium' = f[2]
           /\ font_small' = f[3]
    /\ exc' = "none"
    /\ pc' = "draw"
    /\ UNCHANGED <<fs, content, prog, out, exit_code, verifierLocals,
                   img, loads, startFs, history>>

\* Lines 31-74: text, circles and lines drawn onto the canvas, in memory.
Draw ==
    /\ prog = "generator" /\ pc = "draw"
    /\ pc' = "makedirs"
    /\ UNCHANGED <<fs, content, prog, out, exit_code, exc, verifierLocals,
                   generatorLocals, startFs, history>>

\* Line 78.
MakeOutputDir ==
    /\ prog = "generator" /\ pc = "makedirs"
    /\ \E permitted \in BOOLEAN :
          LET r == makedirs(fs, output_dir, permitted)
          IN  /\ fs' = r.fs
              /\ exc' = r.exc
              /\ pc' = After(r.ok, "save")
              /\ exit_code' = IF After(r.ok, "save") = "crashed" THEN 1 ELSE exit_code
    /\ UNCHANGED <<content, prog, out, verifierLocals, generatorLocals,
                   startFs, history>>

\* Line 79.
SaveImage ==
    /\ prog = "generator" /\ pc = "save"
    /\ \E permitted \in BOOLEAN :
          LET r == save(fs, content, output_path, img, permitted)
          IN  /\ fs' = r.fs
              /\ content' = r.content
              /\ exc' = r.exc
              /\ pc' = After(r.ok, "report")
              /\ exit_code' = IF After(r.ok, "report") = "crashed" THEN 1 ELSE exit_code
    /\ UNCHANGED <<prog, out, verifierLocals, generatorLocals, startFs, history>>

\* Lines 81-84, and the return to the interpreter, which exits 0.
Report ==
    /\ prog = "generator" /\ pc = "report"
    /\ out' = out \o ReportLines
    /\ pc' = "exited"
    /\ UNCHANGED <<fs, content, prog, exit_code, exc, verifierLocals,
                   generatorLocals, startFs, history>>

\* The process is gone, returned or killed by the exception.
GeneratorExit ==
    /\ prog = "generator" /\ pc \in {"exited", "crashed"}
    /\ UNCHANGED <<fs, content, history>>
    /\ ProcessGone

GeneratorStep ==
    \/ CreateImage \/ LoadFontLarge \/ LoadFontMedium \/ LoadFontSmall
    \/ FontFallback \/ Draw \/ MakeOutputDir \/ SaveImage \/ Report
    \/ GeneratorExit

---------------------------------------------------------------------------

Init ==
    /\ fs \in InitialTrees
    /\ content \in (IF fs[output_path] = "file" THEN {NoContent, Graphic}
                    ELSE {NoContent})
    /\ NoProcess
    /\ hasLast = FALSE
    /\ lastFs = fs
    /\ lastOut = << >>

Next ==
    \/ StartVerifier
    \/ VerifierHeader
    \/ CheckEntry
    \/ Aggregate
    \/ Footer
    \/ VerifierExit
    \/ StartGenerator
    \/ CreateImage
    \/ LoadFontLarge
    \/ LoadFontMedium
    \/ LoadFontSmall
    \/ FontFallback
    \/ Draw
    \/ MakeOutputDir
    \/ SaveImage
    \/ Report
    \/ GeneratorExit

Spec == Init /\ [][Next]_vars

\* The runs are sequential programs: a started process takes its next step.
FairSpec == Spec /\ WF_vars(VerifierStep) /\ WF_vars(GeneratorStep)

---------------------------------------------------------------------------
(* Properties *)

Lines(o) == {o[k] : k \in 1..Len(o)}
Entries == 1..NumRequired
H == Len(HeaderLines)

PresentLine(i) == StatusLine(PRESENT, NameOf(i), PathOf(i))
MissingLine(i) == StatusLine(MISSING, NameOf(i), PathOf(i))

\* The verifier has printed its aggregate message.
Aggregated == prog = "verifier" /\ pc \in {"footer", "exited"}
VerifierDone == prog = "verifier" /\ pc = "exited"
GeneratorDone == prog = "generator" /\ pc = "exited"

TypeOK ==
    /\ fs \in [Nodes -> Kinds] /\ WellFormed(fs)
    /\ prog \in {"none", "verifier", "generator"}
    /\ exit_code \in {0, 1}
    /\ idx \in 1..(NumRequired + 1)
    /\ all_files_present \in BOOLEAN
    /\ loads \in 0..3

\* C1: when some required path is missing, the finished report marks every
\* missing entry as missing and every existing entry as present (the loop
\* goes on past a missing entry), and the aggregate message is the "some
\* files are missing" one, never the "all present" one.
C1_SomeMissing ==
    (Aggregated /\ \E i \in Entries : ~exists(fs, PathOf(i))) =>
        /\ \A i \in Entries :
              IF exists(fs, PathOf(i))
              THEN PresentLine(i) \in Lines(out) /\ MissingLine(i) \notin Lines(out)
              ELSE MissingLine(i) \in Lines(out) /\ PresentLine(i) \notin Lines(out)
        /\ SOME_MISSING \in Lines(out)
        /\ ALL_PRESENT \notin Lines(out)

\* A finished report with a missing entry followed by an existing one.
C1_Witness ==
    /\ VerifierDone
    /\ \E i, j \in Entries :
          /\ i < j
          /\ ~exists(fs, PathOf(i)) /\ MissingLine(i) \in Lines(out)
          /\ exists(fs, PathOf(j)) /\ PresentLine(j) \in Lines(out)
    /\ SOME_MISSING \in Lines(out)

\* C2: when every required path exists, as a file or as a directory, every
\* entry is marked present and the aggregate message is the "all present"
\* one, never the "some files are missing" one.
C2_AllPresent ==
    (Aggregated /\ \A i \in Entries : fs[PathOf(i)] \in {"file", "dir"}) =>
        /\ \A i \in Entries :
              PresentLine(i) \in Lines(out) /\ MissingLine(i) \notin Lines(out)
        /\ ALL_PRESENT \in Lines(out)
        /\ SOME_MISSING \notin Lines(out)

\* A finished "all present" report where one required path is a directory.
C2_Witness ==
    /\ VerifierDone
    /\ \A i \in Entries : exists(fs, PathOf(i))
    /\ \E i \in Entries : fs[PathOf(i)] = "dir"
    /\ ALL_PRESENT \in Lines(out)

\* The positions of out that hold a status line of entry i.
StatusPositions(i) ==
    {k \in 1..Len(out) : out[k] \in {PresentLine(i), MissingLine(i)}}

\* C3: the status lines are one per entry in the order of required_files:
\* the i-th status line is the line of entry i, with its label and path;
\* while the loop runs nothing else is printed; in the finished report each
\* entry has exactly one status line, and the aggregate message comes after
\* the last of them.
C3_OneLinePerEntryInOrder ==
    /\ (prog = "verifier" /\ pc = "loop") =>
          /\ Len(out) = H + idx - 1
          /\ \A i \in 1..(idx - 1) : out[H + i] \in {PresentLine(i), MissingLine(i)}
          /\ ALL_PRESENT \notin Lines(out) /\ SOME_MISSING \notin Lines(out)
    /\ Aggregated =>
          /\ \A i \in Entries :
                /\ out[H + i] \in {PresentLine(i), MissingLine(i)}
                /\ StatusPositions(i) = {H + i}
          /\ \A k \in 1..Len(out) :
                out[k] \in {ALL_PRESENT, SOME_MISSING} => k > H + NumRequired
          /\ \E k \in 1..Len(out) : out[k] \in {ALL_PRESENT, SOME_MISSING}

\* A finished report, with a missing and a present entry among its lines.
C3_Witness ==
    /\ VerifierDone
    /\ Len(out) > H + NumRequired
    /\ \E i, j \in Entries : out[H + i] = MissingLine(i) /\ out[H + j] = PresentLine(j)

\* C4: a verifier run that started from the same working directory as the
\* run before it has printed the same lines.
C4_Deterministic ==
    (VerifierDone /\ hasLast /\ lastFs = startFs) => out = lastOut

\* A second finished run over an unchanged directory with a missing entry.
C4_Witness ==
    /\ VerifierDone /\ hasLast /\ lastFs = startFs /\ fs = startFs
    /\ SOME_MISSING \in Lines(out)
    /\ out = lastOut

\* C5: a verifier run raises nothing and keeps exit status 0; it ends, with
\* all entries checked, the "For detailed instructions" line last, and exit
\* status 0 under either aggregate; and every started run does end.
C5_TerminatesNormally ==
    /\ [](prog = "verifier" => exc = "none" /\ pc # "crashed")
    /\ [](VerifierDone =>
            /\ idx = NumRequired + 1
            /\ out[Len(out)] = FOOTER
            /\ exit_code = 0)
    /\ (prog = "verifier" ~> VerifierDone)

\* A run over a directory with a missing path that has ended with status 0.
C5_Witness ==
    /\ VerifierDone
    /\ \E i \in Entries : ~exists(fs, PathOf(i))
    /\ SOME_MISSING \in Lines(out)
    /\ out[Len(out)] = FOOTER
    /\ exit_code = 0

\* C6: when create_feature_graphic() has returned, the output file exists
\* and holds a 1024x500 canvas, whichever fonts were used and whatever was
\* at the output location before.
C6_OutputWritten ==
    GeneratorDone =>
        /\ fs[output_path] = "file"
        /\ fs[output_dir] = "dir"
        /\ content = [width |-> 1024, height |-> 500]

\* A run that fell back to the default font, created the parent directory
\* and has returned.
C6_Witness ==
    /\ GeneratorDone
    /\ font_large = load_default
    /\ startFs[output_dir] = "absent"
    /\ fs[output_path] = "file"

\* C7: no step of the verifier, and no start or end of a process, changes
\* the working directory; a step of the generator changes nothing but the
\* output file and, when absent, its parent directory.
C7_Frame ==
    [][ /\ (prog # "generator" \/ prog' # "generator") =>
               (fs' = fs /\ content' = content)
        /\ (prog = "generator") =>
               /\ \A n \in Nodes \ {output_path, output_dir} : fs'[n] = fs[n]
               /\ fs[output_dir] # "absent" => fs'[output_dir] = fs[output_dir]
      ]_vars

\* The generator has created the parent directory and the output file.
C7_Witness ==
    /\ prog = "generator" /\ pc = "report"
    /\ startFs[output_dir] = "absent"
    /\ fs[output_dir] = "dir" /\ fs[output_path] = "file"
    /\ \A n \in Nodes \ {output_path, output_dir} : fs[n] = startFs[n]

\* C8: in the generator an exception is in flight only in the except clause
\* (a font load failure) or in a run killed by it: a failure of makedirs or
\* save ends the run with a non-zero status and without the "created
\* successfully" message, and that message is printed only once the image
\* is saved.
C8_OnlyFontFailureCaught ==
    /\ [](prog = "generator" /\ pc = "except" => exc = "OSError")
    /\ [](prog = "generator" /\ exc # "none" /\ pc # "except" =>
            /\ pc = "crashed"
            /\ exit_code = 1
            /\ CREATED \notin Lines(out))
    /\ [](prog = "generator" /\ CREATED \in Lines(out) =>
            /\ exc = "none"
            /\ fs[output_path] = "file"
            /\ content = img)
    /\ [][prog = "generator" /\ pc = "crashed" => prog' = "none"]_vars

\* A run killed by a refused save, the parent directory being in place.
C8_Witness ==
    /\ prog = "generator" /\ pc = "crashed"
    /\ exc = "PermissionError"
    /\ fs[output_dir] = "dir"
    /\ CREATED \notin Lines(out)

\* C9: after the first k entries, all_files_present is true exactly when
\* each of those k paths exists; and in the loop the flag never goes from
\* false back to true.
C9_FlagIsConjunction ==
    /\ [](prog = "verifier" /\ pc \in {"loop", "footer", "exited"} =>
            (all_files_present <=>
                \A j \in 1..(idx - 1) : exists(fs, PathOf(j))))
    /\ [][prog = "verifier" /\ pc = "loop" /\ ~all_files_present =>
            ~all_files_present']_vars

\* In the loop, the flag is false after an entry that exists.
C9_Witness ==
    /\ prog = "verifier" /\ pc = "loop"
    /\ idx > 1 /\ idx <= NumRequired
    /\ exists(fs, PathOf(idx - 1))
    /\ ~all_files_present

\* C10: when drawing starts the three fonts are the three preferred ones or
\* all three the default, and nothing has been printed.
C10_FontsAllOrNothing ==
    (prog = "generator" /\ pc = "draw") =>
        /\ \/ /\ font_large = truetype("arial.ttf", 80)
              /\ font_medium = truetype("arial.ttf", 40)
              /\ font_small = truetype("arial.ttf", 30)
           \/ /\ font_large = load_default
              /\ font_medium = load_default
              /\ font_small = load_default
        /\ loads < 3 => font_large = load_default
        /\ out = << >>

\* Drawing starts with the default fonts after two sizes had loaded.
C10_Witness ==
    /\ prog = "generator" /\ pc = "draw"
    /\ loads = 2
    /\ font_large = load_default /\ font_small = load_default

=============================================================================
